---------------------------- MODULE Spec2Model ----------------------------
(***************************************************************************)
(* A model of the pixel tracker (src/main.go): the PixelTracker with its   *)
(* configuration, handler list and DataStore, the PixelHandler running on  *)
(* the request's goroutine, the detached processRequest goroutine, and     *)
(* Configure, Use and GetTrackingData running concurrently with them.      *)
(*                                                                         *)
(* Strings the code only compares or copies are TLA+ strings.  Strings the *)
(* code takes apart (header values split, trimmed or matched) are          *)
(* sequences of one-character strings.                                     *)
(***************************************************************************)
EXTENDS Integers, Sequences, FiniteSets, TLC

(***************************************************************************)
(* Bounds of the model.                                                    *)
(***************************************************************************)
\* pixel requests served in one run
MaxReq == 2
\* handlers registered with Use in one run
MaxHandlers == 2
\* Configure calls in one run
MaxConfigure == 1
\* stats requests served in one run
MaxStats == 1
\* most query parameters of a request an extractor is called on
MaxQuery == 2
\* longest Accept-Language value an extractor is called on
MaxLang == 5
\* longest X-Forwarded-For value an extractor is called on
MaxForwarded == 3
\* longest RemoteAddr an extractor is called on
MaxAddr == 4
\* most words of a User-Agent value an extractor is called on
MaxWords == 3

(***************************************************************************)
(* Character-sequence helpers: what strings.Split, strings.TrimSpace and   *)
(* the regexp package compute on the header values.                        *)
(***************************************************************************)
Min(S) == CHOOSE x \in S : \A y \in S : x <= y

Max(S) == CHOOSE x \in S : \A y \in S : x >= y

\* unicode.IsSpace / regexp \s on the characters the model uses
IsSpace(c) == c \in {" ", "\t", "\n", "\r"}

Drop(s, n) == SubSeq(s, n + 1, Len(s))

Take(s, n) == SubSeq(s, 1, n)

\* positions (1-based) of character c in s
Positions(s, c) == {i \in 1..Len(s) : s[i] = c}

\* strings.HasPrefix(s[i-1:], lit)
HasPrefixAt(s, i, lit) ==
    /\ i >= 1
    /\ i + Len(lit) - 1 <= Len(s)
    /\ \A k \in 1..Len(lit) : s[i + k - 1] = lit[k]

\* strings.TrimSpace
TrimSpace(s) ==
    LET keep == {i \in 1..Len(s) : ~IsSpace(s[i])}
    IN  IF keep = {} THEN <<>> ELSE SubSeq(s, Min(keep), Max(keep))

\* strings.Split(s, sep) for a one-character separator: never empty
RECURSIVE Split(_, _)
Split(s, sep) ==
    LET at == Positions(s, sep)
    IN  IF at = {} THEN <<s>>
        ELSE <<Take(s, Min(at) - 1)>> \o Split(Drop(s, Min(at)), sep)

(***************************************************************************)
(* Attribute extractors.                                                   *)
(***************************************************************************)
\* the sentinel getReferer returns
Direct == "direct"

\* a getReferer that never looks at the Referrer header
getRefererNoFallback(r) ==
    IF r.Referer = "" THEN Direct ELSE r.Referer

\* getReferer: the Referer header, else the Referrer header, else "direct"
getReferer(r) ==
    LET referer == IF r.Referer = "" THEN r.Referrer ELSE r.Referer
    IN  IF referer = "" THEN Direct ELSE referer

\* net.SplitHostPort: [ok, host]; ok is FALSE where it returns an error
SplitHostPort(hostport) ==
    LET colons == Positions(hostport, ":")
        i      == IF colons = {} THEN 0 ELSE Max(colons)
        Bad    == [ok |-> FALSE, host |-> <<>>]
    IN  IF i = 0 THEN Bad
        ELSE IF hostport[1] = "["
        THEN LET closes == Positions(hostport, "]")
                 end    == IF closes = {} THEN 0 ELSE Min(closes)
             IN  IF end = 0 \/ end + 1 # i THEN Bad
                 ELSE IF Positions(Drop(hostport, 1), "[") # {} THEN Bad
                 ELSE IF Positions(Drop(hostport, end), "]") # {} THEN Bad
                 ELSE [ok |-> TRUE, host |-> SubSeq(hostport, 2, end - 1)]
        ELSE LET host == Take(hostport, i - 1)
             IN  IF Positions(host, ":") # {} THEN Bad
                 ELSE IF Positions(hostport, "[") # {} THEN Bad
                 ELSE IF Positions(hostport, "]") # {} THEN Bad
                 ELSE [ok |-> TRUE, host |-> host]

\* a getClientIP that looks at X-Real-IP before X-Forwarded-For
getClientIPRealFirst(r) ==
    IF r.XRealIP # <<>>
    THEN r.XRealIP
    ELSE IF r.XForwardedFor # <<>>
    THEN TrimSpace(Split(r.XForwardedFor, ",")[1])
    ELSE LET hp == SplitHostPort(r.RemoteAddr)
         IN  IF ~hp.ok THEN r.RemoteAddr ELSE hp.host

\* getClientIP: X-Forwarded-For's first entry, else X-Real-IP, else RemoteAddr
getClientIP(r) ==
    IF r.XForwardedFor # <<>>
    THEN TrimSpace(Split(r.XForwardedFor, ",")[1])
    ELSE IF r.XRealIP # <<>>
    THEN r.XRealIP
    ELSE LET hp == SplitHostPort(r.RemoteAddr)
         IN  IF ~hp.ok THEN r.RemoteAddr ELSE hp.host

\* 5 * time.Minute, in seconds
DecayWindow == 300

\* a getDecay that never returns 0
getDecayIgnored(decay, now) == (now + DecayWindow) * 1000

\* getDecay at wall-clock second now: (now + 5 min).Unix() * 1000, or 0
getDecay(decay, now) ==
    IF decay = "" THEN (now + DecayWindow) * 1000 ELSE 0

\* parseLanguage: tags before ";", trimmed, empty ones dropped
RECURSIVE LanguagesOf(_)
LanguagesOf(parts) ==
    IF parts = <<>> THEN <<>>
    ELSE LET lang == TrimSpace(Split(Head(parts), ";")[1])
         IN  (IF lang # <<>> THEN <<lang>> ELSE <<>>) \o LanguagesOf(Tail(parts))

\* a parseLanguage that keeps the quality weight of its first tag
parseLanguageWeighted(acceptLanguage) ==
    IF acceptLanguage = <<>> THEN <<>>
    ELSE LET parts == Split(acceptLanguage, ",")
             first == TrimSpace(parts[1])
         IN  (IF first # <<>> THEN <<first>> ELSE <<>>)
                 \o LanguagesOf(Tail(parts))

parseLanguage(acceptLanguage) ==
    IF acceptLanguage = <<>> THEN <<>>
    ELSE LanguagesOf(Split(acceptLanguage, ","))

\* extractDomain on "host" or "host:port": url.Parse("http://" + host) fails on
\* a port (after the last colon) that is not a number, and then the host comes
\* back whole; Hostname() cuts the host at its first colon
extractDomain(host) ==
    LET colons == Positions(host, ":")
        i      == IF colons = {} THEN 0 ELSE Max(colons)
        Digits == {"0", "1", "2", "3", "4", "5", "6", "7", "8", "9"}
    IN  IF host = <<>> THEN <<>>
        ELSE IF i = 0 THEN host
        ELSE IF \E k \in (i + 1)..Len(host) : host[k] \notin Digits THEN host
        ELSE Take(host, Min(colons) - 1)

(***************************************************************************)
(* parseUserAgent.  Each signature is a literal followed by (\S+): the     *)
(* leftmost place where the literal is followed by a run of non-space      *)
(* characters after which the rest of the pattern matches; the capture is  *)
(* the longest such run (the quantifier is greedy).                        *)
(***************************************************************************)
\* s[from .. from+k-1] is a run of k >= 1 non-space characters
IsRun(s, from, k) ==
    /\ k >= 1
    /\ from + k - 1 <= Len(s)
    /\ \A j \in from..(from + k - 1) : ~IsSpace(s[j])

\* what must follow the capture: nothing in `Edg/(\S+)` and its like;
\* "Safari/" later on the same line in `Version/(\S+).*?Safari/` (. does not
\* match a newline); a semicolon in `MSIE (\S+);`
TailOK(tail, s, at) ==
    CASE tail = "any" -> TRUE
      [] tail = "safari" ->
            \E j \in at..Len(s) :
                /\ HasPrefixAt(s, j, <<"S", "a", "f", "a", "r", "i", "/">>)
                /\ \A k \in at..(j - 1) : s[k] # "\n"
      [] tail = "semicolon" -> at <= Len(s) /\ s[at] = ";"

\* regex.FindStringSubmatch(s): [found, version]
FindStringSubmatch(s, lit, tail) ==
    LET Caps(i) == {k \in 1..Len(s) :
                      IsRun(s, i + Len(lit), k) /\ TailOK(tail, s, i + Len(lit) + k)}
        starts  == {i \in 1..Len(s) : HasPrefixAt(s, i, lit) /\ Caps(i) # {}}
    IN  IF starts = {} THEN [found |-> FALSE, version |-> <<>>]
        ELSE LET i == Min(starts)
             IN  [found |-> TRUE,
                  version |-> SubSeq(s, i + Len(lit), i + Len(lit) + Max(Caps(i)) - 1)]

\* a parseUserAgent that tests Chrome before Edge
parseUserAgentChromeFirst(userAgent) ==
    LET edge    == FindStringSubmatch(userAgent, <<"E", "d", "g", "/">>, "any")
        firefox == FindStringSubmatch(userAgent,
                       <<"F", "i", "r", "e", "f", "o", "x", "/">>, "any")
        safari  == FindStringSubmatch(userAgent,
                       <<"V", "e", "r", "s", "i", "o", "n", "/">>, "safari")
        chrome  == FindStringSubmatch(userAgent,
                       <<"C", "h", "r", "o", "m", "e", "/">>, "any")
        opera   == FindStringSubmatch(userAgent,
                       <<"O", "p", "e", "r", "a", "/">>, "any")
        msie    == FindStringSubmatch(userAgent,
                       <<"M", "S", "I", "E", " ">>, "semicolon")
    IN  IF userAgent = <<>> THEN [Browser |-> "unknown", Version |-> <<>>]
        ELSE IF chrome.found THEN [Browser |-> "Chrome", Version |-> chrome.version]
        ELSE IF edge.found THEN [Browser |-> "Edge", Version |-> edge.version]
        ELSE IF firefox.found THEN [Browser |-> "Firefox", Version |-> firefox.version]
        ELSE IF safari.found THEN [Browser |-> "Safari", Version |-> safari.version]
        ELSE IF opera.found THEN [Browser |-> "Opera", Version |-> opera.version]
        ELSE IF msie.found THEN [Browser |-> "MSIE", Version |-> msie.version]
        ELSE [Browser |-> "other", Version |-> <<>>]

\* parseUserAgent: the first signature that matches, in the code's order
parseUserAgent(userAgent) ==
    LET edge    == FindStringSubmatch(userAgent, <<"E", "d", "g", "/">>, "any")
        firefox == FindStringSubmatch(userAgent,
                       <<"F", "i", "r", "e", "f", "o", "x", "/">>, "any")
        safari  == FindStringSubmatch(userAgent,
                       <<"V", "e", "r", "s", "i", "o", "n", "/">>, "safari")
        chrome  == FindStringSubmatch(userAgent,
                       <<"C", "h", "r", "o", "m", "e", "/">>, "any")
        opera   == FindStringSubmatch(userAgent,
                       <<"O", "p", "e", "r", "a", "/">>, "any")
        msie    == FindStringSubmatch(userAgent,
                       <<"M", "S", "I", "E", " ">>, "semicolon")
    IN  IF userAgent = <<>> THEN [Browser |-> "unknown", Version |-> <<>>]
        ELSE IF edge.found THEN [Browser |-> "Edge", Version |-> edge.version]
        ELSE IF firefox.found THEN [Browser |-> "Firefox", Version |-> firefox.version]
        ELSE IF safari.found THEN [Browser |-> "Safari", Version |-> safari.version]
        ELSE IF chrome.found THEN [Browser |-> "Chrome", Version |-> chrome.version]
        ELSE IF opera.found THEN [Browser |-> "Opera", Version |-> opera.version]
        ELSE IF msie.found THEN [Browser |-> "MSIE", Version |-> msie.version]
        ELSE [Browser |-> "other", Version |-> <<>>]

\* extractCookies: name -> value over r.Cookies(); a later cookie of the same
\* name overwrites an earlier one
extractCookies(cookies) ==
    [n \in {cookies[i].Name : i \in 1..Len(cookies)} |->
        cookies[Max({i \in 1..Len(cookies) : cookies[i].Name = n})].Value]

\* extractQueryParams: key -> first value over r.URL.Query()
extractQueryParams(query) ==
    [k \in {query[i].Key : i \in 1..Len(query)} |->
        query[Min({i \in 1..Len(query) : query[i].Key = k})].Value]

\* r.URL.Query().Get(key): the first value of key, "" when there is none
QueryGet(query, key) ==
    LET at == {i \in 1..Len(query) : query[i].Key = key}
    IN  IF at = {} THEN "" ELSE query[Min(at)].Value

\* r.Cookie(name): the first cookie of that name, NoCookie (nil, ErrNoCookie)
\* when there is none
NoCookie == [Name |-> "", Value |-> ""]

Cookie(cookies, name) ==
    LET at == {i \in 1..Len(cookies) : cookies[i].Name = name}
    IN  IF at = {} THEN NoCookie ELSE cookies[Min(at)]

(***************************************************************************)
(* The identity token and the pixel.                                       *)
(***************************************************************************)
\* the 43 bytes of the transparent GIF
pixel1x1 ==
    <<71, 73, 70, 56, 57, 97, 1, 0, 1, 0, 128, 0,
      0, 0, 0, 0, 0, 0, 0, 33, 249, 4, 1, 0,
      0, 0, 0, 44, 0, 0, 0, 0, 1, 0, 1, 0,
      0, 2, 2, 68, 1, 0, 59>>

\* fmt.Sprintf("%f", rand.Float64()) on a draw of the generator
RandValues == {"0.604660"}

\* md5.Sum of the draw, as its 16 bytes
Md5Sum(val) ==
    IF val = "0.604660"
    THEN <<143, 191, 137, 195, 219, 241, 26, 248,
       24, 131, 120, 207, 33, 79, 214, 24>>
    ELSE <<87, 61, 166, 195, 191, 226, 54, 126,
       199, 179, 236, 133, 8, 135, 220, 3>>

\* hex.EncodeToString: two lowercase digits per byte
RECURSIVE EncodeToString(_)
EncodeToString(bytes) ==
    LET hextable == <<"0", "1", "2", "3", "4", "5", "6", "7", "8", "9", "a", "b", "c", "d", "e", "f">>
    IN  IF bytes = <<>> THEN <<>>
        ELSE <<hextable[(Head(bytes) \div 16) + 1], hextable[(Head(bytes) % 16) + 1]>>
                 \o EncodeToString(Tail(bytes))

\* generateUserToken on the draw val
generateUserToken(val) == EncodeToString(Md5Sum(val))

(***************************************************************************)
(* Requests and configurations the model draws its inputs from.            *)
(***************************************************************************)
\* NewPixelTracker's configuration
DefaultConfig ==
    [DisableCookies |-> FALSE, MaxAge |-> 2592000, CookieName |-> "_tracker",
     TrackIP |-> TRUE, Port |-> "8080"]

\* arguments of Configure
Configs ==
    { [DisableCookies |-> FALSE, MaxAge |-> 3600, CookieName |-> "uid",
       TrackIP |-> FALSE, Port |-> "9090"],
      [DisableCookies |-> TRUE, MaxAge |-> 2592000, CookieName |-> "_tracker",
       TrackIP |-> TRUE, Port |-> "8080"] }

\* pixel requests: one with no cookie and no headers, one with a cookie named
\* "uid" (the identity cookie once Configure has set that name) and with proxy
\* and browser headers
SampleRequests ==
    << [Cookies |-> <<>>,
        Query |-> <<[Key |-> "id", Value |-> "1"]>>,
        Host |-> <<"a", ".", "i", "o">>, Path |-> "/pixel.gif",
        Referer |-> "", Referrer |-> "",
        XForwardedFor |-> <<>>, XRealIP |-> <<>>,
        RemoteAddr |-> <<"1", "9", "2", ".", "0", ".", "2", ".", "1", ":", "1", "2", "3", "4">>,
        UserAgent |-> <<>>, AcceptLanguage |-> <<>>],
       [Cookies |-> <<[Name |-> "uid", Value |-> "abc"]>>,
        Query |-> <<[Key |-> "custom", Value |-> "handler"]>>,
        Host |-> <<"a", ".", "i", "o", ":", "8", "0">>, Path |-> "/pixel.gif",
        Referer |-> "https://test.com", Referrer |-> "",
        XForwardedFor |-> <<"1", ".", "1", ".", "1", ".", "1", ",", " ", "2", ".", "2", ".", "2", ".", "2">>, XRealIP |-> <<>>,
        RemoteAddr |-> <<"1", "9", "2", ".", "0", ".", "2", ".", "1", ":", "1", "2", "3", "4">>,
        UserAgent |-> <<"C", "h", "r", "o", "m", "e", "/", "1", "1", "6", " ", "E", "d", "g", "/", "1", "1", "6">>,
        AcceptLanguage |-> <<"e", "n", "-", "U", "S", ",", "e", "n", ";", "q", "=", "0", ".", "9">>] >>

\* the wall-clock second of the run, as time.Now() returns it
Times == {1000}

\* what a registered handler does with the event it is handed: "read" copies
\* it (as the handler of TestTrackerWithCustomHandler does) and takes a
\* snapshot of the store, "mutate" writes into it, "panic" panics
HandlerKinds == {"read", "mutate", "panic"}

(***************************************************************************)
(* The state.                                                              *)
(***************************************************************************)
VARIABLES
    config,     \* pt.config
    cfgArg,     \* the argument of the Configure call in progress
    cpc,        \* where that call is: "idle", or the next field it writes
    nconf,      \* Configure calls made so far
    mu,         \* pt.mu: "free", or who holds its Lock: "Configure", "Use"
    handlers,   \* pt.handlers: what each registered handler does, in order
    data,       \* pt.dataStore.data
    heap,       \* the maps and the language slice each event points to
    nreq,       \* pixel requests received so far
    reqs,       \* request -> its index in SampleRequests (0: not received)
    hpc,        \* request -> where its PixelHandler is
    hloc,       \* request -> PixelHandler's locals and what it read of pt.config
    before,     \* request -> how many handlers were registered when it arrived
    resp,       \* request -> what PixelHandler wrote to its ResponseWriter
    tpc,        \* request -> where its processRequest goroutine is
    td,         \* request -> processRequest's trackingData struct
    hs,         \* request -> processRequest's local copy of pt.handlers
    hi,         \* request -> index of the next handler processRequest calls
    calls,      \* request -> the handler invocations made for its event: which
                \* handler, the event it was handed, and that event as the
                \* store held it then
    crashed,    \* the process died of a panic no one recovered
    stats,      \* the StatsHandler call: where it is, its dataCopy, what the
                \* store held when the copy was made, and what it has written
    pure,       \* an extractor called on its own: its argument and its result
    locks,      \* who holds pt.mu for reading (pt.mu's writer is mu), and who
                \* holds pt.dataStore.mu for writing and for reading
    hcall       \* request -> where the handler its goroutine called is

vars ==
    <<config, cfgArg, cpc, nconf, mu, handlers, data, heap, nreq, reqs, hpc,
      hloc, before, resp, tpc, td, hs, hi, calls, crashed, stats, pure,
      locks, hcall>>

Rqs == 1..MaxReq

Request(r) == SampleRequests[reqs[r]]

\* a map with no entries, and m[k] = v
EmptyMap == [k \in {} |-> ""]

MapPut(m, k, v) == [x \in DOMAIN m \cup {k} |-> IF x = k THEN v ELSE m[x]]

\* the TrackingData struct before its fields are assigned
ZeroTrackingData ==
    [Host |-> <<>>, Path |-> "", Referer |-> "", IP |-> <<>>, Decay |-> 0,
     UserAgent |-> [Browser |-> "", Version |-> <<>>], Geo |-> [IP |-> <<>>],
     Domain |-> <<>>, Timestamp |-> 0, ref |-> 0]

ZeroMaps ==
    [Cookies |-> EmptyMap, Params |-> EmptyMap, Query |-> EmptyMap,
     Language |-> <<>>]

\* a ResponseWriter nothing was written to
ZeroResponse ==
    [Status |-> 0, ContentType |-> "", CacheControl |-> "", Pragma |-> "",
     Expires |-> "", SetCookie |-> <<>>, Body |-> <<>>]

\* PixelHandler's locals: lookup, disable and name are what the reads of
\* pt.config at lines 106, 107 and 110 returned
ZeroLocals ==
    [cookie |-> NoCookie, token |-> <<>>, lookup |-> "", disable |-> FALSE,
     name |-> ""]

\* the zero sync.RWMutex values: muR is who holds pt.mu.RLock, st who holds
\* pt.dataStore.mu.Lock (NoOne: unlocked), stR who holds its RLock; a request's
\* goroutine goes by the request's number, the stats request by StatsThread
NoOne == 0 - 1

StatsThread == 0

NoLocks == [muR |-> {}, st |-> NoOne, stR |-> {}]

\* NewPixelTracker, and no request received
NewPixelTracker ==
    /\ config = DefaultConfig
    /\ cfgArg = DefaultConfig
    /\ cpc = "idle"
    /\ nconf = 0
    /\ mu = "free"
    /\ handlers = <<>>
    /\ data = <<>>
    /\ heap = [r \in Rqs |-> ZeroMaps]
    /\ nreq = 0
    /\ reqs = [r \in Rqs |-> 0]
    /\ hpc = [r \in Rqs |-> "idle"]
    /\ hloc = [r \in Rqs |-> ZeroLocals]
    /\ before = [r \in Rqs |-> 0]
    /\ resp = [r \in Rqs |-> ZeroResponse]
    /\ tpc = [r \in Rqs |-> "none"]
    /\ td = [r \in Rqs |-> ZeroTrackingData]
    /\ hs = [r \in Rqs |-> <<>>]
    /\ hi = [r \in Rqs |-> 0]
    /\ calls = [r \in Rqs |-> <<>>]
    /\ crashed = FALSE
    /\ locks = NoLocks
    /\ hcall = [r \in Rqs |-> "out"]

\* no stats request made
ZeroStats ==
    [pc |-> "idle", n |-> 0, ContentType |-> "", dataCopy |-> <<>>,
     at |-> <<>>, body |-> <<>>]

\* no extractor called
ZeroPure == [fn |-> "none", arg |-> <<>>, called |-> FALSE, out |-> <<>>]

Init ==
    /\ NewPixelTracker
    /\ stats = ZeroStats
    /\ pure = ZeroPure

(***************************************************************************)
(* Configure and Use.                                                      *)
(***************************************************************************)
\* the fields of Config, in the order the struct assignment copies them; Port,
\* which nothing reads once the server runs, goes with TrackIP
NextField(f) ==
    CASE f = "DisableCookies" -> "MaxAge"
      [] f = "MaxAge" -> "CookieName"
      [] f = "CookieName" -> "TrackIP"
      [] f = "TrackIP" -> "idle"

\* pt.config with field f overwritten from c
WriteField(cfg, c, f) ==
    CASE f = "DisableCookies" -> [cfg EXCEPT !.DisableCookies = c.DisableCookies]
      [] f = "MaxAge" -> [cfg EXCEPT !.MaxAge = c.MaxAge]
      [] f = "CookieName" -> [cfg EXCEPT !.CookieName = c.CookieName]
      [] f = "TrackIP" -> [cfg EXCEPT !.TrackIP = c.TrackIP, !.Port = c.Port]

\* Configure: pt.mu.Lock(), then the first field of pt.config = config
Configure(c) ==
    /\ ~crashed
    /\ nconf < MaxConfigure
    /\ mu = "free"
    /\ locks.muR = {}
    /\ mu' = "Configure"
    /\ cfgArg' = c
    /\ config' = WriteField(config, c, "DisableCookies")
    /\ cpc' = NextField("DisableCookies")
    /\ nconf' = nconf + 1
    /\ UNCHANGED <<handlers, data, heap, nreq, reqs, hpc, hloc, before,
                   resp, tpc, td, hs, hi, calls, crashed, stats, pure,
                   locks, hcall>>

\* Configure: the next field of pt.config = config; after the last one the
\* deferred pt.mu.Unlock()
ConfigureWrite ==
    /\ ~crashed
    /\ cpc # "idle"
    /\ config' = WriteField(config, cfgArg, cpc)
    /\ cpc' = NextField(cpc)
    /\ mu' = IF NextField(cpc) = "idle" THEN "free" ELSE mu
    /\ UNCHANGED <<cfgArg, nconf, handlers, data, heap, nreq, reqs, hpc,
                   hloc, before, resp, tpc, td, hs, hi, calls, crashed,
                   stats, pure, locks, hcall>>

\* Use: pt.handlers = append(pt.handlers, handler) under pt.mu
Use(kind) ==
    /\ ~crashed
    /\ Len(handlers) < MaxHandlers
    /\ mu = "free"
    /\ locks.muR = {}
    /\ handlers' = Append(handlers, kind)
    /\ UNCHANGED <<config, cfgArg, cpc, nconf, mu, data, heap, nreq, reqs,
                   hpc, hloc, before, resp, tpc, td, hs, hi, calls, crashed,
                   stats, pure, locks, hcall>>

(***************************************************************************)
(* PixelHandler.  It reads pt.config four times and takes no lock; each    *)
(* read is a step of its own, so a Configure call can fall between two.    *)
(***************************************************************************)
\* w.Write(b): the first write sends status 200
Write(w, b) ==
    [w EXCEPT !.Status = IF @ = 0 THEN 200 ELSE @, !.Body = @ \o b]

\* http.SetCookie(w, c): a cookie whose name is not valid is dropped
SetCookie(w, c) ==
    IF c.Name = "" THEN w ELSE [w EXCEPT !.SetCookie = Append(@, c)]

\* lines 101-106: a request arrives; the four headers are set and the cookie
\* named pt.config.CookieName is looked up on the request
PixelHandler(k) ==
    LET r == nreq + 1 IN
    /\ ~crashed
    /\ nreq < MaxReq
    /\ nreq' = r
    /\ reqs' = [reqs EXCEPT ![r] = k]
    /\ resp' = [resp EXCEPT ![r] =
                   [@ EXCEPT !.ContentType = "image/gif",
                             !.CacheControl = "no-cache, no-store, must-revalidate",
                             !.Pragma = "no-cache",
                             !.Expires = "0"]]
    /\ hloc' = [hloc EXCEPT ![r].lookup = config.CookieName,
                             ![r].cookie =
                   Cookie(SampleRequests[k].Cookies, config.CookieName)]
    /\ before' = [before EXCEPT ![r] = Len(handlers)]
    /\ hpc' = [hpc EXCEPT ![r] = "h107"]
    /\ UNCHANGED <<config, cfgArg, cpc, nconf, mu, handlers, data, heap,
                   tpc, td, hs, hi, calls, crashed, stats, pure,
                   locks, hcall>>

\* a handler that returns without line 118
PixelWriteNone(w) == w

\* lines 118-121 on the ResponseWriter: the pixel is written
PixelWrite(w) == Write(w, pixel1x1)

\* lines 107-108: the test of pt.config.DisableCookies and of the cookie
\* found, and the token; with no cookie to set, lines 118-121 follow (the
\* pixel is written, processRequest is started on a goroutine of its own,
\* and PixelHandler returns)
PixelCheck(r) ==
    /\ ~crashed
    /\ hpc[r] = "h107"
    /\ IF ~config.DisableCookies /\ hloc[r].cookie = NoCookie
       THEN /\ \E val \in RandValues :
                  hloc' = [hloc EXCEPT ![r].token = generateUserToken(val),
                                       ![r].disable = config.DisableCookies]
            /\ hpc' = [hpc EXCEPT ![r] = "h110"]
            /\ UNCHANGED <<resp, tpc>>
       ELSE /\ resp' = [resp EXCEPT ![r] = PixelWrite(@)]
            /\ tpc' = [tpc EXCEPT ![r] = "t124"]
            /\ hpc' = [hpc EXCEPT ![r] = "returned"]
            /\ hloc' = [hloc EXCEPT ![r] =
                           [ZeroLocals EXCEPT !.lookup = hloc[r].lookup,
                                              !.disable = config.DisableCookies]]
    /\ UNCHANGED <<config, cfgArg, cpc, nconf, mu, handlers, data, heap,
                   nreq, reqs, before, td, hs, hi, calls, crashed, stats,
                   pure, locks, hcall>>

\* line 110: Name: pt.config.CookieName
PixelCookieName(r) ==
    /\ ~crashed
    /\ hpc[r] = "h110"
    /\ hloc' = [hloc EXCEPT ![r].name = config.CookieName]
    /\ hpc' = [hpc EXCEPT ![r] = "h112"]
    /\ UNCHANGED <<config, cfgArg, cpc, nconf, mu, handlers, data, heap,
                   nreq, reqs, before, resp, tpc, td, hs, hi, calls,
                   crashed, stats, pure, locks, hcall>>

\* lines 109-121: MaxAge: pt.config.MaxAge, http.SetCookie, and then the
\* pixel, the goroutine and the return
PixelSetCookie(r) ==
    /\ ~crashed
    /\ hpc[r] = "h112"
    /\ resp' = [resp EXCEPT ![r] =
                   PixelWrite(SetCookie(@, [Name |-> hloc[r].name,
                                            Value |-> hloc[r].token,
                                            MaxAge |-> config.MaxAge,
                                            HttpOnly |-> TRUE,
                                            Path |-> "/"]))]
    /\ tpc' = [tpc EXCEPT ![r] = "t124"]
    /\ hpc' = [hpc EXCEPT ![r] = "returned"]
    /\ hloc' = [hloc EXCEPT ![r] =
                   [ZeroLocals EXCEPT !.lookup = hloc[r].lookup,
                                      !.disable = hloc[r].disable]]
    /\ UNCHANGED <<config, cfgArg, cpc, nconf, mu, handlers, data, heap,
                   nreq, reqs, before, td, hs, hi, calls, crashed, stats,
                   pure, locks, hcall>>

\* the steps of a PixelHandler that has started
PixelStep(r) ==
    \/ PixelCheck(r)
    \/ PixelCookieName(r)
    \/ PixelSetCookie(r)

\* a processRequest that assigns IP without looking at pt.config.TrackIP
NewTrackingDataAlwaysIP(r, req, trackIP, t1, t2) ==
    [Host |-> req.Host,
     Path |-> req.Path,
     Referer |-> getReferer(req),
     IP |-> getClientIP(req),
     Decay |-> getDecay(QueryGet(req.Query, "decay"), t2),
     UserAgent |-> parseUserAgent(req.UserAgent),
     Geo |-> [IP |-> getClientIP(req)],
     Domain |-> extractDomain(req.Host),
     Timestamp |-> t1,
     ref |-> r]

\* a processRequest that fills Geo only when pt.config.TrackIP is set
NewTrackingDataGeoTracked(r, req, trackIP, t1, t2) ==
    [Host |-> req.Host,
     Path |-> req.Path,
     Referer |-> getReferer(req),
     IP |-> IF trackIP THEN getClientIP(req) ELSE <<>>,
     Decay |-> getDecay(QueryGet(req.Query, "decay"), t2),
     UserAgent |-> parseUserAgent(req.UserAgent),
     Geo |-> [IP |-> IF trackIP THEN getClientIP(req) ELSE <<>>],
     Domain |-> extractDomain(req.Host),
     Timestamp |-> t1,
     ref |-> r]

(***************************************************************************)
(* processRequest.                                                         *)
(***************************************************************************)
\* lines 124-142: the struct processRequest fills in; trackIP is what it
\* read from pt.config.TrackIP, t1 and t2 the seconds of its two time.Now()
NewTrackingData(r, req, trackIP, t1, t2) ==
    [Host |-> req.Host,
     Path |-> req.Path,
     Referer |-> getReferer(req),
     IP |-> IF trackIP THEN getClientIP(req) ELSE <<>>,
     Decay |-> getDecay(QueryGet(req.Query, "decay"), t2),
     UserAgent |-> parseUserAgent(req.UserAgent),
     Geo |-> [IP |-> getClientIP(req)],
     Domain |-> extractDomain(req.Host),
     Timestamp |-> t1,
     ref |-> r]

\* the maps and the slice that struct points to (mux.Vars is empty: the
\* route has no variables)
NewMaps(req) ==
    [Cookies |-> extractCookies(req.Cookies),
     Params |-> EmptyMap,
     Query |-> extractQueryParams(req.Query),
     Language |-> parseLanguage(req.AcceptLanguage)]

\* an event as a reader sees it: the struct's own fields and, behind its
\* map and slice fields, what the heap holds now
View(e) ==
    [Cookies |-> heap[e.ref].Cookies,
     Host |-> e.Host,
     Path |-> e.Path,
     Referer |-> e.Referer,
     Params |-> heap[e.ref].Params,
     Query |-> heap[e.ref].Query,
     IP |-> e.IP,
     Decay |-> e.Decay,
     UserAgent |-> e.UserAgent,
     Language |-> heap[e.ref].Language,
     Geo |-> e.Geo,
     Domain |-> e.Domain,
     Timestamp |-> e.Timestamp]

ViewAll(events) == [i \in 1..Len(events) |-> View(events[i])]

\* an append whose read of the slice is stale: it overwrites the last slot
AppendEventLost(store, e) ==
    IF store = <<>> THEN <<e>> ELSE SubSeq(store, 1, Len(store) - 1) \o <<e>>

\* append(pt.dataStore.data, *trackingData): the struct is copied, the maps
\* it points to are not
AppendEvent(store, e) == Append(store, e)

\* a read of the slice that does not wait for an append in progress: it takes
\* in the events about to be appended
GetTrackingDataUnlocked ==
    data \o SelectSeq([r \in Rqs |-> td[r]], LAMBDA e : e.ref # 0 /\ tpc[e.ref] = "t144")

\* GetTrackingData: a copy of the slice (the structs, not their maps)
GetTrackingData == data

\* lines 124-142: extraction; pt.config.TrackIP is read without a lock, and
\* both time.Now() fall in the same second
Extract(r) ==
    /\ ~crashed
    /\ tpc[r] = "t124"
    /\ \E now \in Times :
          td' = [td EXCEPT ![r] =
                    NewTrackingData(r, Request(r), config.TrackIP, now, now)]
    /\ heap' = [heap EXCEPT ![r] = NewMaps(Request(r))]
    /\ tpc' = [tpc EXCEPT ![r] = "t144"]
    /\ UNCHANGED <<config, cfgArg, cpc, nconf, mu, handlers, data, nreq,
                   reqs, hpc, hloc, before, resp, hs, hi, calls, crashed,
                   stats, pure, locks, hcall>>

\* a store that takes the events in the order the requests arrived in
StoreAppendInOrder(r) ==
    /\ ~crashed
    /\ tpc[r] = "t144"
    /\ \A q \in 1..(r - 1) : tpc[q] \in {"t148", "t152", "done"}
    /\ data' = AppendEvent(data, td[r])
    /\ tpc' = [tpc EXCEPT ![r] = "t148"]
    /\ UNCHANGED <<config, cfgArg, cpc, nconf, mu, handlers, heap, nreq,
                   reqs, hpc, hloc, before, resp, td, hs, hi, calls,
                   crashed, stats, pure, locks, hcall>>

\* lines 144-146: the append, between pt.dataStore.mu.Lock() and Unlock():
\* one step, since the lock keeps every other reader and writer of the slice out
StoreAppend(r) ==
    /\ ~crashed
    /\ tpc[r] = "t144"
    /\ data' = AppendEvent(data, td[r])
    /\ tpc' = [tpc EXCEPT ![r] = "t148"]
    /\ UNCHANGED <<config, cfgArg, cpc, nconf, mu, handlers, heap, nreq,
                   reqs, hpc, hloc, before, resp, td, hs, hi, calls,
                   crashed, stats, pure, locks, hcall>>

\* lines 148-150: handlers := pt.handlers under pt.mu.RLock()
ReadHandlers(r) ==
    /\ ~crashed
    /\ tpc[r] = "t148"
    /\ mu = "free"
    /\ hs' = [hs EXCEPT ![r] = handlers]
    /\ hi' = [hi EXCEPT ![r] = IF handlers = <<>> THEN 0 ELSE 1]
    /\ tpc' = [tpc EXCEPT ![r] = IF handlers = <<>> THEN "done" ELSE "t152"]
    /\ before' = IF handlers = <<>> THEN [before EXCEPT ![r] = 0] ELSE before
    /\ UNCHANGED <<config, cfgArg, cpc, nconf, mu, handlers, data, heap,
                   nreq, reqs, hpc, hloc, resp, td, calls, crashed, stats,
                   pure, locks, hcall>>

\* a loop that walks the list from its end
HandlerAtReversed(list, i) == list[Len(list) + 1 - i]

\* the handler of the loop's i-th round
HandlerAt(list, i) == list[i]

\* lines 152-154: one round of the loop, handler(trackingData).  The handler
\* gets the pointer to processRequest's struct: a "read" handler copies the
\* struct and looks its event up in GetTrackingData(), a "mutate" handler
\* writes into the maps and into a field, a "panic" handler panics, and
\* nothing recovers.  After the last round the goroutine ends, and its
\* locals with it
Dispatch(r) ==
    LET kind == HandlerAt(hs[r], hi[r]) IN
    /\ ~crashed
    /\ tpc[r] = "t152"
    /\ calls' = [calls EXCEPT ![r] =
                    Append(@, [idx |-> hi[r], kind |-> kind, got |-> View(td[r]),
                               stored |-> ViewAll(SelectSeq(GetTrackingData,
                                              LAMBDA e : e.ref = td[r].ref))])]
    /\ heap' = IF kind = "mutate"
               THEN [heap EXCEPT ![td[r].ref].Query = MapPut(@, "injected", "1"),
                                 ![td[r].ref].Cookies = MapPut(@, "injected", "1")]
               ELSE heap
    /\ td' = IF kind = "mutate" THEN [td EXCEPT ![r].Path = "/evil"] ELSE td
    /\ crashed' = (kind = "panic")
    /\ IF kind # "panic" /\ hi[r] = Len(hs[r])
       THEN /\ tpc' = [tpc EXCEPT ![r] = "done"]
            /\ hs' = [hs EXCEPT ![r] = <<>>]
            /\ hi' = [hi EXCEPT ![r] = 0]
            /\ before' = [before EXCEPT ![r] = 0]
       ELSE /\ hi' = [hi EXCEPT ![r] = @ + 1]
            /\ UNCHANGED <<before, tpc, hs>>
    /\ UNCHANGED <<config, cfgArg, cpc, nconf, mu, handlers, data, nreq,
                   reqs, hpc, hloc, resp, stats, pure, locks, hcall>>

(***************************************************************************)
(* StatsHandler.  GetTrackingData copies the structs under the store's     *)
(* read lock; the encoder then walks the copy, and the maps and slices it  *)
(* points to, with no lock held.                                           *)
(***************************************************************************)
\* encoding/json on one TrackingData: a JSON object keyed by the struct's
\* json tags; "ip" carries omitempty and is left out when IP is empty
EncodeEvent(v) ==
    LET object ==
            [cookies |-> v.Cookies, host |-> v.Host, path |-> v.Path,
             referer |-> v.Referer, params |-> v.Params, query |-> v.Query,
             decay |-> v.Decay,
             useragent |-> [browser |-> v.UserAgent.Browser,
                            version |-> v.UserAgent.Version],
             language |-> v.Language, geo |-> [ip |-> v.Geo.IP],
             domain |-> v.Domain, timestamp |-> v.Timestamp]
    IN  IF v.IP = <<>> THEN object ELSE object @@ [ip |-> v.IP]

\* json.NewEncoder(w).Encode(data): a JSON array, one object per event
Encode(events) == [i \in 1..Len(events) |-> EncodeEvent(View(events[i]))]

\* json.Unmarshal of one object into a TrackingData, as the tests read the
\* stats response: a key that is missing leaves the field at its zero value
DecodeEvent(o) ==
    [Cookies |-> o.cookies, Host |-> o.host, Path |-> o.path,
     Referer |-> o.referer, Params |-> o.params, Query |-> o.query,
     IP |-> IF "ip" \in DOMAIN o THEN o.ip ELSE <<>>,
     Decay |-> o.decay,
     UserAgent |-> [Browser |-> o.useragent.browser,
                    Version |-> o.useragent.version],
     Language |-> o.language, Geo |-> [IP |-> o.geo.ip],
     Domain |-> o.domain, Timestamp |-> o.timestamp]

Decode(body) == [i \in 1..Len(body) |-> DecodeEvent(body[i])]

\* lines 166-167: the Content-Type header, and data := pt.GetTrackingData()
StatsHandler ==
    /\ ~crashed
    /\ stats.pc \in {"idle", "done"}
    /\ stats.n < MaxStats
    /\ stats' = [pc |-> "s168", n |-> stats.n + 1,
                 ContentType |-> "application/json",
                 dataCopy |-> GetTrackingData,
                 at |-> ViewAll(GetTrackingData), body |-> <<>>]
    /\ UNCHANGED <<config, cfgArg, cpc, nconf, mu, handlers, data, heap,
                   nreq, reqs, hpc, hloc, before, resp, tpc, td, hs, hi,
                   calls, crashed, pure, locks, hcall>>

\* line 168: json.NewEncoder(w).Encode(data)
StatsEncode ==
    /\ ~crashed
    /\ stats.pc = "s168"
    /\ stats' = [stats EXCEPT !.pc = "done", !.body = Encode(stats.dataCopy)]
    /\ UNCHANGED <<config, cfgArg, cpc, nconf, mu, handlers, data, heap,
                   nreq, reqs, hpc, hloc, before, resp, tpc, td, hs, hi,
                   calls, crashed, pure, locks, hcall>>

Next ==
    \/ \E c \in Configs : Configure(c)
    \/ ConfigureWrite
    \/ \E kind \in HandlerKinds : Use(kind)
    \/ \E k \in 1..Len(SampleRequests) : PixelHandler(k)
    \/ \E r \in Rqs : PixelStep(r)
    \/ \E r \in Rqs : Extract(r)
    \/ \E r \in Rqs : StoreAppend(r)
    \/ \E r \in Rqs : ReadHandlers(r)
    \/ \E r \in Rqs : Dispatch(r)

Spec == Init /\ [][Next]_vars

(***************************************************************************)
(* The extractors called on their own, on every argument up to a length.   *)
(***************************************************************************)
\* the character sequences over alphabet of length at most n
Strs(alphabet, n) == UNION {[1..k -> alphabet] : k \in 0..n}

\* an extractor fn about to be called on arg
ToCall(fn, arg) == [fn |-> fn, arg |-> arg, called |-> FALSE, out |-> <<>>]

\* the header values and remote addresses getClientIP is called on
ClientIPArgs ==
    [XForwardedFor : Strs({"1", ",", " "}, MaxForwarded),
     XRealIP : {<<>>, <<"2">>, <<" ", "2">>},
     RemoteAddr : Strs({"3", ":", "[", "]"}, MaxAddr)]

\* words User-Agent values are made of
Words ==
    {<<"C", "h", "r", "o", "m", "e", "/", "1">>,
     <<"C", "h", "r", "o", "m", "e", "/">>,
     <<"E", "d", "g", "/", "2">>,
     <<"S", "a", "f", "a", "r", "i", "/", "3">>,
     <<"V", "e", "r", "s", "i", "o", "n", "/", "4">>,
     <<"V", "e", "r", "s", "i", "o", "n", "/", "4", "S", "a", "f", "a", "r", "i", "/">>,
     <<"F", "i", "r", "e", "f", "o", "x", "/", "5">>,
     <<"O", "p", "e", "r", "a", "/", "6">>,
     <<"M", "S", "I", "E">>,
     <<"7", ";">>,
     <<"x">>}

\* the words of ws with a space between each two
RECURSIVE Join(_)
Join(ws) ==
    IF ws = <<>> THEN <<>>
    ELSE IF Len(ws) = 1 THEN ws[1]
    ELSE ws[1] \o <<" ">> \o Join(Tail(ws))

\* the User-Agent values parseUserAgent is called on
UserAgentArgs == {Join(ws) : ws \in Strs(Words, MaxWords)}

\* the query strings and wall-clock seconds getDecay is called under: a
\* parameter is a key and its value, "?decay=" has the empty value
QueryParams ==
    {[Key |-> "decay", Value |-> ""], [Key |-> "decay", Value |-> "1"],
     [Key |-> "id", Value |-> "1"]}

DecayArgs == [Query : Strs(QueryParams, MaxQuery), now : {0, 1000}]

\* the Referer and Referrer headers getReferer is called on
RefererArgs ==
    [Referer : {"", "https://a", "https://b"},
     Referrer : {"", "https://a", "https://b"}]

\* the Accept-Language values parseLanguage is called on
LanguageArgs == Strs({"a", "b", ",", ";", " "}, MaxLang)

PureArgs ==
    {ToCall("getClientIP", a) : a \in ClientIPArgs}
        \cup {ToCall("parseUserAgent", a) : a \in UserAgentArgs}
        \cup {ToCall("getDecay", a) : a \in DecayArgs}
        \cup {ToCall("getReferer", a) : a \in RefererArgs}
        \cup {ToCall("parseLanguage", a) : a \in LanguageArgs}

PureInit ==
    /\ NewPixelTracker
    /\ stats = ZeroStats
    /\ pure \in PureArgs

\* the extractor returns
Return(out) ==
    /\ ~pure.called
    /\ pure' = [pure EXCEPT !.called = TRUE, !.out = out]
    /\ UNCHANGED <<config, cfgArg, cpc, nconf, mu, handlers, data, heap,
                   nreq, reqs, hpc, hloc, before, resp, tpc, td, hs, hi,
                   calls, crashed, stats, locks, hcall>>

CallGetClientIP ==
    /\ pure.fn = "getClientIP"
    /\ Return(getClientIP(pure.arg))

CallParseUserAgent ==
    /\ pure.fn = "parseUserAgent"
    /\ Return(parseUserAgent(pure.arg))

\* processRequest line 138: getDecay(r.URL.Query().Get("decay"))
CallGetDecay ==
    /\ pure.fn = "getDecay"
    /\ Return(getDecay(QueryGet(pure.arg.Query, "decay"), pure.arg.now))

CallGetReferer ==
    /\ pure.fn = "getReferer"
    /\ Return(getReferer(pure.arg))

CallParseLanguage ==
    /\ pure.fn = "parseLanguage"
    /\ Return(parseLanguage(pure.arg))

PureNext ==
    \/ CallGetClientIP
    \/ CallParseUserAgent
    \/ CallGetDecay
    \/ CallGetReferer
    \/ CallParseLanguage

PureSpec == PureInit /\ [][PureNext]_vars

\* the tracker serving pixel and stats requests under the configuration it
\* was built with
StatsNext ==
    \/ \E kind \in HandlerKinds : Use(kind)
    \/ \E k \in 1..Len(SampleRequests) : PixelHandler(k)
    \/ \E r \in Rqs : PixelStep(r)
    \/ \E r \in Rqs : Extract(r)
    \/ \E r \in Rqs : StoreAppend(r)
    \/ \E r \in Rqs : ReadHandlers(r)
    \/ \E r \in Rqs : Dispatch(r)
    \/ StatsHandler
    \/ StatsEncode

StatsSpec == Init /\ [][StatsNext]_vars

(***************************************************************************)
(* The locks, one step per Lock, RLock, Unlock and RUnlock, with handlers  *)
(* that call back into the tracker or never return.                        *)
(***************************************************************************)
\* what a registered handler does here: "get" calls pt.GetTrackingData(),
\* "use" calls pt.Use(h) with a "get" handler h, "configure" calls
\* pt.Configure(c), "block" never returns
LockKinds == {"get", "use", "configure", "block"}

\* sync.RWMutex: Lock waits for the writer and the readers to be gone, RLock
\* for the writer
CanLockMu == mu = "free" /\ locks.muR = {}

CanRLockMu == mu = "free"

CanLockStore == locks.st = NoOne /\ locks.stR = {}

CanRLockStore == locks.st = NoOne

\* line 144: pt.dataStore.mu.Lock()
StoreLock(r) ==
    /\ ~crashed
    /\ tpc[r] = "t144"
    /\ CanLockStore
    /\ locks' = [locks EXCEPT !.st = r]
    /\ tpc' = [tpc EXCEPT ![r] = "t145"]
    /\ UNCHANGED <<config, cfgArg, cpc, nconf, mu, handlers, data, heap,
                   nreq, reqs, hpc, hloc, before, resp, td, hs, hi, calls,
                   crashed, stats, pure, hcall>>

\* lines 145-146: the append and pt.dataStore.mu.Unlock()
StoreAppendUnlock(r) ==
    /\ ~crashed
    /\ tpc[r] = "t145"
    /\ data' = AppendEvent(data, td[r])
    /\ locks' = [locks EXCEPT !.st = NoOne]
    /\ tpc' = [tpc EXCEPT ![r] = "t148"]
    /\ UNCHANGED <<config, cfgArg, cpc, nconf, mu, handlers, heap, nreq,
                   reqs, hpc, hloc, before, resp, td, hs, hi, calls,
                   crashed, stats, pure, hcall>>

\* lines 148-149: pt.mu.RLock() and handlers := pt.handlers
HandlersRLock(r) ==
    /\ ~crashed
    /\ tpc[r] = "t148"
    /\ CanRLockMu
    /\ locks' = [locks EXCEPT !.muR = @ \cup {r}]
    /\ hs' = [hs EXCEPT ![r] = handlers]
    /\ tpc' = [tpc EXCEPT ![r] = "t150"]
    /\ UNCHANGED <<config, cfgArg, cpc, nconf, mu, handlers, data, heap,
                   nreq, reqs, hpc, hloc, before, resp, td, hi, calls,
                   crashed, stats, pure, hcall>>

\* an RUnlock put off to the end of processRequest, which the loop comes
\* before
HandlersRUnlockDeferred(r) ==
    /\ ~crashed
    /\ tpc[r] = "t150"
    /\ hi' = [hi EXCEPT ![r] = IF hs[r] = <<>> THEN 0 ELSE 1]
    /\ tpc' = [tpc EXCEPT ![r] = IF hs[r] = <<>> THEN "done" ELSE "t152"]
    /\ locks' = IF hs[r] = <<>> THEN [locks EXCEPT !.muR = @ \ {r}] ELSE locks
    /\ before' = IF hs[r] = <<>> THEN [before EXCEPT ![r] = 0] ELSE before
    /\ UNCHANGED <<config, cfgArg, cpc, nconf, mu, handlers, data, heap,
                   nreq, reqs, hpc, hloc, resp, td, hs, calls, crashed,
                   stats, pure, hcall>>

\* line 150: pt.mu.RUnlock(); the loop over no handlers ends the goroutine
HandlersRUnlock(r) ==
    /\ ~crashed
    /\ tpc[r] = "t150"
    /\ locks' = [locks EXCEPT !.muR = @ \ {r}]
    /\ hi' = [hi EXCEPT ![r] = IF hs[r] = <<>> THEN 0 ELSE 1]
    /\ tpc' = [tpc EXCEPT ![r] = IF hs[r] = <<>> THEN "done" ELSE "t152"]
    /\ before' = IF hs[r] = <<>> THEN [before EXCEPT ![r] = 0] ELSE before
    /\ UNCHANGED <<config, cfgArg, cpc, nconf, mu, handlers, data, heap,
                   nreq, reqs, hpc, hloc, resp, td, hs, calls, crashed,
                   stats, pure, hcall>>

\* line 153: handler(trackingData) is called
Invoke(r) ==
    /\ ~crashed
    /\ tpc[r] = "t152"
    /\ hcall[r] = "out"
    /\ hcall' = [hcall EXCEPT ![r] = "in"]
    /\ calls' = [calls EXCEPT ![r] =
                    Append(@, [idx |-> hi[r], kind |-> HandlerAt(hs[r], hi[r]),
                               got |-> View(td[r]),
                               stored |-> ViewAll(SelectSeq(GetTrackingData,
                                              LAMBDA e : e.ref = td[r].ref))])]
    /\ UNCHANGED <<config, cfgArg, cpc, nconf, mu, handlers, data, heap,
                   nreq, reqs, hpc, hloc, before, resp, tpc, td, hs, hi,
                   crashed, stats, pure, locks>>

\* a loop that ranges over pt.handlers itself, not over the copy of line 149
HandlerReturnsLive(r) ==
    /\ hcall' = [hcall EXCEPT ![r] = "out"]
    /\ IF hi[r] >= Len(handlers)
       THEN /\ tpc' = [tpc EXCEPT ![r] = "done"]
            /\ hs' = [hs EXCEPT ![r] = <<>>]
            /\ hi' = [hi EXCEPT ![r] = 0]
            /\ before' = [before EXCEPT ![r] = 0]
       ELSE /\ hi' = [hi EXCEPT ![r] = @ + 1]
            /\ hs' = [hs EXCEPT ![r] = handlers]
            /\ UNCHANGED <<before, tpc>>

\* the handler returns to the loop of lines 152-154, which goes on to the
\* next handler or, after the last one, ends the goroutine
HandlerReturns(r) ==
    /\ hcall' = [hcall EXCEPT ![r] = "out"]
    /\ IF hi[r] = Len(hs[r])
       THEN /\ tpc' = [tpc EXCEPT ![r] = "done"]
            /\ hs' = [hs EXCEPT ![r] = <<>>]
            /\ hi' = [hi EXCEPT ![r] = 0]
            /\ before' = [before EXCEPT ![r] = 0]
       ELSE /\ hi' = [hi EXCEPT ![r] = @ + 1]
            /\ UNCHANGED <<before, tpc, hs>>

\* the handler that is running for request r
Running(r, kind, at) ==
    /\ ~crashed
    /\ tpc[r] = "t152"
    /\ hcall[r] = at
    /\ HandlerAt(hs[r], hi[r]) = kind

\* a "get" handler, line 158: pt.dataStore.mu.RLock()
HandlerGetRLock(r) ==
    /\ Running(r, "get", "in")
    /\ CanRLockStore
    /\ locks' = [locks EXCEPT !.stR = @ \cup {r}]
    /\ hcall' = [hcall EXCEPT ![r] = "locked"]
    /\ UNCHANGED <<config, cfgArg, cpc, nconf, mu, handlers, data, heap,
                   nreq, reqs, hpc, hloc, before, resp, tpc, td, hs, hi,
                   calls, crashed, stats, pure>>

\* lines 159-162: the copy, the deferred RUnlock, and the handler returns
HandlerGetRUnlock(r) ==
    /\ Running(r, "get", "locked")
    /\ locks' = [locks EXCEPT !.stR = @ \ {r}]
    /\ HandlerReturns(r)
    /\ UNCHANGED <<config, cfgArg, cpc, nconf, mu, handlers, data, heap,
                   nreq, reqs, hpc, hloc, resp, td, calls, crashed, stats,
                   pure>>

\* a "use" handler, line 95: pt.mu.Lock()
HandlerUseLock(r) ==
    /\ Running(r, "use", "in")
    /\ CanLockMu
    /\ mu' = "Use"
    /\ hcall' = [hcall EXCEPT ![r] = "locked"]
    /\ UNCHANGED <<config, cfgArg, cpc, nconf, handlers, data, heap, nreq,
                   reqs, hpc, hloc, before, resp, tpc, td, hs, hi, calls,
                   crashed, stats, pure, locks>>

\* lines 96-97: the append, the deferred Unlock, and the handler returns
HandlerUseUnlock(r) ==
    /\ Running(r, "use", "locked")
    /\ handlers' = Append(handlers, "get")
    /\ mu' = "free"
    /\ HandlerReturns(r)
    /\ UNCHANGED <<config, cfgArg, cpc, nconf, data, heap, nreq, reqs, hpc,
                   hloc, resp, td, calls, crashed, stats, pure, locks>>

\* a "configure" handler, lines 89-91: pt.mu.Lock() and the first field of
\* pt.config = config
HandlerConfigure(r, c) ==
    /\ Running(r, "configure", "in")
    /\ CanLockMu
    /\ mu' = "Configure"
    /\ cfgArg' = c
    /\ config' = WriteField(config, c, "DisableCookies")
    /\ cpc' = NextField("DisableCookies")
    /\ nconf' = nconf
    /\ hcall' = [hcall EXCEPT ![r] = "locked"]
    /\ UNCHANGED <<handlers, data, heap, nreq, reqs, hpc, hloc, before,
                   resp, tpc, td, hs, hi, calls, crashed, stats, pure,
                   locks>>

\* the next field; after the last one the deferred Unlock, and the handler
\* returns
HandlerConfigureWrite(r) ==
    /\ Running(r, "configure", "locked")
    /\ config' = WriteField(config, cfgArg, cpc)
    /\ cpc' = NextField(cpc)
    /\ IF NextField(cpc) = "idle"
       THEN /\ mu' = "free"
            /\ HandlerReturns(r)
       ELSE UNCHANGED <<mu, hcall, before, tpc, hs, hi>>
    /\ UNCHANGED <<cfgArg, nconf, handlers, data, heap, nreq, reqs, hpc,
                   hloc, resp, td, calls, crashed, stats, pure, locks>>

\* line 166: StatsHandler sets the Content-Type header
StatsBegin ==
    /\ ~crashed
    /\ stats.pc \in {"idle", "done"}
    /\ stats.n < MaxStats
    /\ stats' = [pc |-> "s167", n |-> stats.n + 1,
                 ContentType |-> "application/json", dataCopy |-> <<>>,
                 at |-> <<>>, body |-> <<>>]
    /\ UNCHANGED <<config, cfgArg, cpc, nconf, mu, handlers, data, heap,
                   nreq, reqs, hpc, hloc, before, resp, tpc, td, hs, hi,
                   calls, crashed, pure, locks, hcall>>

\* lines 167, 158: GetTrackingData's pt.dataStore.mu.RLock()
StatsRLock ==
    /\ ~crashed
    /\ stats.pc = "s167"
    /\ CanRLockStore
    /\ locks' = [locks EXCEPT !.stR = @ \cup {StatsThread}]
    /\ stats' = [stats EXCEPT !.pc = "s159"]
    /\ UNCHANGED <<config, cfgArg, cpc, nconf, mu, handlers, data, heap,
                   nreq, reqs, hpc, hloc, before, resp, tpc, td, hs, hi,
                   calls, crashed, pure, hcall>>

\* lines 159-162: the copy and the deferred RUnlock
StatsCopy ==
    /\ ~crashed
    /\ stats.pc = "s159"
    /\ locks' = [locks EXCEPT !.stR = @ \ {StatsThread}]
    /\ stats' = [stats EXCEPT !.pc = "s168", !.dataCopy = GetTrackingData,
                              !.at = ViewAll(GetTrackingData)]
    /\ UNCHANGED <<config, cfgArg, cpc, nconf, mu, handlers, data, heap,
                   nreq, reqs, hpc, hloc, before, resp, tpc, td, hs, hi,
                   calls, crashed, pure, hcall>>

\* the steps of the processRequest goroutine of request r, its handlers'
\* steps included
TaskStep(r) ==
    \/ Extract(r)
    \/ StoreLock(r)
    \/ StoreAppendUnlock(r)
    \/ HandlersRLock(r)
    \/ HandlersRUnlock(r)
    \/ Invoke(r)
    \/ HandlerGetRLock(r)
    \/ HandlerGetRUnlock(r)
    \/ HandlerUseLock(r)
    \/ HandlerUseUnlock(r)
    \/ \E c \in Configs : HandlerConfigure(r, c)
    \/ HandlerConfigureWrite(r)

\* the steps of the stats request once it has begun
StatsStep ==
    \/ StatsRLock
    \/ StatsCopy
    \/ StatsEncode

\* a tracker with its handlers registered before it serves, as main
\* registers its own
LockInit ==
    /\ config = DefaultConfig
    /\ cfgArg = DefaultConfig
    /\ cpc = "idle"
    /\ nconf = 0
    /\ mu = "free"
    /\ handlers \in UNION {[1..n -> LockKinds] : n \in 0..MaxHandlers}
    /\ data = <<>>
    /\ heap = [r \in Rqs |-> ZeroMaps]
    /\ nreq = 0
    /\ reqs = [r \in Rqs |-> 0]
    /\ hpc = [r \in Rqs |-> "idle"]
    /\ hloc = [r \in Rqs |-> ZeroLocals]
    /\ before = [r \in Rqs |-> 0]
    /\ resp = [r \in Rqs |-> ZeroResponse]
    /\ tpc = [r \in Rqs |-> "none"]
    /\ td = [r \in Rqs |-> ZeroTrackingData]
    /\ hs = [r \in Rqs |-> <<>>]
    /\ hi = [r \in Rqs |-> 0]
    /\ calls = [r \in Rqs |-> <<>>]
    /\ crashed = FALSE
    /\ locks = NoLocks
    /\ hcall = [r \in Rqs |-> "out"]
    /\ stats = ZeroStats
    /\ pure = ZeroPure

\* the requests served here: the first of SampleRequests, which sends no
\* cookie and no headers
LockRequests == {1}

LockNext ==
    \/ \E k \in LockRequests : PixelHandler(k)
    \/ \E r \in Rqs : PixelStep(r)
    \/ \E r \in Rqs : TaskStep(r)
    \/ StatsBegin
    \/ StatsStep

LockSpec == LockInit /\ [][LockNext]_vars

\* the Go scheduler runs every goroutine that can run
LockFairSpec ==
    /\ LockSpec
    /\ \A r \in Rqs : WF_vars(PixelStep(r))
    /\ \A r \in Rqs : WF_vars(TaskStep(r))
    /\ WF_vars(StatsStep)

\* the Go scheduler runs every goroutine that can run: the net/http goroutine
\* of a request keeps taking PixelHandler's steps while it has one to take
FairSpec == Spec /\ \A r \in Rqs : WF_vars(PixelStep(r))

(***************************************************************************)
(* Properties.                                                             *)
(***************************************************************************)
\* the configurations pt.config is ever assigned
AllConfigs == {DefaultConfig} \cup Configs

\* s is a prefix of t
IsPrefix(s, t) == Len(s) <= Len(t) /\ SubSeq(t, 1, Len(s)) = s

HexDigits == {"0", "1", "2", "3", "4", "5", "6", "7", "8", "9",
              "a", "b", "c", "d", "e", "f"}

\* where processRequest is once lines 124-142 have run
Extracted == {"t144", "t148", "t152", "done"}

\* C1: once the processRequest task of every received request has finished,
\* GetTrackingData holds as many events as requests were received, exactly
\* one per request, with that request's host and path
C1_Theorem ==
    (\A r \in 1..nreq : tpc[r] = "done") =>
        /\ Len(GetTrackingData) = nreq
        /\ \A r \in 1..nreq :
              /\ Cardinality({i \in 1..Len(GetTrackingData) :
                                 GetTrackingData[i].ref = r}) = 1
              /\ \A i \in 1..Len(GetTrackingData) :
                    GetTrackingData[i].ref = r =>
                        /\ GetTrackingData[i].Host = Request(r).Host
                        /\ GetTrackingData[i].Path = Request(r).Path

\* every request was received, every task has finished, and the second
\* request's append came first
C1_Witness ==
    /\ nreq = MaxReq
    /\ \A r \in Rqs : tpc[r] = "done"
    /\ Len(data) = MaxReq
    /\ data[1].ref = 2

\* C2: whenever PixelHandler has returned, its response is status 200 with
\* Content-Type image/gif, the three no-cache headers and the 43 bytes of
\* pixel1x1 as its body, whatever the configuration, the handlers and the
\* capture tasks have done or do afterwards
C2_Theorem ==
    \A r \in Rqs :
        hpc[r] = "returned" =>
            /\ resp[r].Status = 200
            /\ resp[r].ContentType = "image/gif"
            /\ resp[r].CacheControl = "no-cache, no-store, must-revalidate"
            /\ resp[r].Pragma = "no-cache"
            /\ resp[r].Expires = "0"
            /\ resp[r].Body = pixel1x1
            /\ Len(resp[r].Body) = 43

\* a response that set a cookie, returned under a replaced configuration,
\* with a handler having written into the request's event
C2_Witness ==
    \E r \in Rqs :
        /\ hpc[r] = "returned"
        /\ resp[r].SetCookie # <<>>
        /\ nconf > 0
        /\ \E j \in DOMAIN calls[r] : calls[r][j].kind = "mutate"

\* C3: a PixelHandler that has started returns, whatever the capture tasks
\* and the handlers of this and of other requests do meanwhile
C3_Counterexample ==
    \A r \in Rqs : (hpc[r] # "idle") ~> (hpc[r] = "returned")

\* C4: a handler that panicked takes nothing down with it: the process
\* lives, the loop of its task goes on to the handlers registered after it,
\* the tasks of other requests still extract and append, and the event of
\* its request is in the store as it was appended
C4_Counterexample ==
    \A r \in Rqs :
        \A j \in DOMAIN calls[r] :
            calls[r][j].kind = "panic" =>
                /\ ~crashed
                /\ tpc[r] = "t152" => ENABLED Dispatch(r)
                /\ \A q \in Rqs :
                      /\ tpc[q] = "t124" => ENABLED Extract(q)
                      /\ tpc[q] = "t144" => ENABLED StoreAppend(q)
                /\ ViewAll(SelectSeq(GetTrackingData,
                                     LAMBDA e : e.ref = r))
                       = calls[r][j].stored

\* what processRequest read of pt.config.TrackIP, once it has read it
TrackIPRead(r) == td[r].IP # <<>>

\* the reads of pt.config made for request r all return fields of c
ReadsAgree(r, c) ==
    /\ hloc[r].lookup = c.CookieName
    /\ hloc[r].disable = c.DisableCookies
    /\ \A i \in DOMAIN resp[r].SetCookie :
           /\ resp[r].SetCookie[i].Name = c.CookieName
           /\ resp[r].SetCookie[i].MaxAge = c.MaxAge
    /\ tpc[r] \in Extracted => TrackIPRead(r) = c.TrackIP

\* C5: for every request whose PixelHandler has returned, the cookie name
\* it looked up, the DisableCookies flag it tested, the name and the max-age
\* of the cookie it set and the TrackIP flag its task read are the fields of
\* one configuration: the one before or the one after a Configure call
C5_Counterexample ==
    \A r \in Rqs :
        hpc[r] = "returned" => \E c \in AllConfigs : ReadsAgree(r, c)

\* C6: what GetTrackingData returns at one instant is a prefix, event for
\* event and field for field, of what it returns at the next, and so at any
\* later one
C6_Counterexample ==
    [][IsPrefix(ViewAll(GetTrackingData), ViewAll(GetTrackingData)')]_vars

\* C7: a handler invocation, whatever the handler writes into the event it
\* is handed, leaves every event of the store as it was
C7_Counterexample ==
    [][\A r \in Rqs :
          Len(calls'[r]) = Len(calls[r]) + 1 =>
              \A i \in 1..Len(GetTrackingData) :
                  View(GetTrackingData[i])' = View(GetTrackingData[i])]_vars

\* the process died while a handler registered before request r arrived
\* had not been invoked for r's event
Missed(r) ==
    /\ crashed
    /\ hpc[r] # "idle"
    /\ tpc[r] # "done"
    /\ Len(calls[r]) < before[r]

\* C8: no handler registered before a request arrived is left uninvoked
\* for it, the j-th invocation made for a request is of the j-th registered
\* handler and of no other, and the event each invocation receives equals
\* the event the store holds for that request
C8_Counterexample ==
    \A r \in Rqs :
        /\ ~Missed(r)
        /\ \A j \in DOMAIN calls[r] :
              /\ calls[r][j].idx = j
              /\ calls[r][j].kind = handlers[j]
              /\ calls[r][j].stored = <<calls[r][j].got>>

\* C9: the j-th invocation made for a request's event is of the j-th
\* handler registered with Use, and at every invocation the event is
\* already in what GetTrackingData returns, once
C9_Theorem ==
    \A r \in Rqs :
        /\ \A j \in DOMAIN calls[r] :
              /\ calls[r][j].idx = j
              /\ calls[r][j].kind = handlers[j]
              /\ Len(calls[r][j].stored) = 1
        /\ tpc[r] = "t152" =>
               \E i \in 1..Len(GetTrackingData) : GetTrackingData[i].ref = r

\* two handlers that differ were invoked for one event
C9_Witness ==
    \E r \in Rqs :
        /\ Len(calls[r]) = 2
        /\ calls[r][1].kind # calls[r][2].kind

\* a 32-character lowercase hexadecimal token
IsToken(v) == Len(v) = 32 /\ \A i \in 1..Len(v) : v[i] \in HexDigits

\* C10: a response to a request that carries no cookie of the configured
\* name, returned with issuance enabled, sets exactly one cookie: its name
\* is the configured name, its value a 32-character lowercase hexadecimal
\* token, its Max-Age the configured max-age, HttpOnly set and Path "/"
C10_Counterexample ==
    \A r \in Rqs :
        (/\ hpc[r] = "returned"
         /\ Cookie(Request(r).Cookies, hloc[r].lookup) = NoCookie
         /\ ~hloc[r].disable) =>
            \E c \in AllConfigs :
                /\ c.CookieName = hloc[r].lookup
                /\ ~c.DisableCookies
                /\ Len(resp[r].SetCookie) = 1
                /\ resp[r].SetCookie[1].Name = c.CookieName
                /\ IsToken(resp[r].SetCookie[1].Value)
                /\ resp[r].SetCookie[1].MaxAge = c.MaxAge
                /\ resp[r].SetCookie[1].HttpOnly
                /\ resp[r].SetCookie[1].Path = "/"

\* C11: a response that has been returned sets no cookie when issuance was
\* disabled or the request carries a cookie of the configured name, whether
\* that is the name PixelHandler looked up or the name under which it sets
\* its cookie
C11_Counterexample ==
    \A r \in Rqs :
        hpc[r] = "returned" =>
            /\ hloc[r].disable => resp[r].SetCookie = <<>>
            /\ Cookie(Request(r).Cookies, hloc[r].lookup) # NoCookie =>
                   resp[r].SetCookie = <<>>
            /\ \A i \in DOMAIN resp[r].SetCookie :
                   Cookie(Request(r).Cookies, resp[r].SetCookie[i].Name)
                       = NoCookie

\* C12: what StatsHandler has written, read back, is the store's sequence as
\* it stood when StatsHandler took its copy: every event, field for field,
\* in append order
C12_Counterexample ==
    stats.pc = "done" => Decode(stats.body) = stats.at

\* where processRequest is once its append (lines 144-146) has completed
Appended == {"t148", "t152", "done"}

\* C13: a step that appends to the store leaves the copy GetTrackingData
\* returned earlier as it was, in length and in contents, and every event of
\* a returned copy is an event of the store whose append has completed
C13_Theorem ==
    [][/\ Len(data') > Len(data) =>
              /\ stats'.dataCopy = stats.dataCopy
              /\ ViewAll(stats.dataCopy)' = ViewAll(stats.dataCopy)
       /\ \A i \in 1..Len(stats'.dataCopy) :
              /\ i <= Len(data')
              /\ stats'.dataCopy[i] = data'[i]
              /\ tpc'[stats'.dataCopy[i].ref] \in Appended]_vars

\* a copy of one event is held and a second event has been appended since
C13_Witness ==
    /\ stats.pc # "idle"
    /\ Len(stats.dataCopy) = 1
    /\ Len(data) = 2

\* C14: the IP field processRequest assigns is the resolved client IP when
\* pt.config.TrackIP is true as the task reads it, and is empty, and then
\* left out of the event's serialization, when it is false; the event in the
\* store carries that field
C14_Theorem ==
    [][/\ \A r \in Rqs :
              (tpc[r] = "t124" /\ tpc'[r] = "t144") =>
                  /\ config.TrackIP =>
                         td'[r].IP = getClientIP(Request(r))
                  /\ ~config.TrackIP =>
                         /\ td'[r].IP = <<>>
                         /\ "ip" \notin DOMAIN EncodeEvent(View(td[r])')
       /\ \A i \in 1..Len(data') :
              data'[i].IP = td'[data'[i].ref].IP]_vars

\* the store holds an event with an IP and an event without one
C14_Witness ==
    \E i, j \in 1..Len(data) :
        /\ data[i].IP = <<>>
        /\ data[j].IP # <<>>
        /\ "ip" \in DOMAIN EncodeEvent(View(data[j]))

\* o is e without its leading and trailing white space
IsTrimOf(o, e) ==
    /\ o # <<>> => ~IsSpace(o[1]) /\ ~IsSpace(o[Len(o)])
    /\ \E i \in 0..Len(e) :
          /\ i + Len(o) <= Len(e)
          /\ SubSeq(e, i + 1, i + Len(o)) = o
          /\ \A k \in 1..i : IsSpace(e[k])
          /\ \A k \in (i + Len(o) + 1)..Len(e) : IsSpace(e[k])

\* no character of s is in set
Without(s, set) == \A k \in 1..Len(s) : s[k] \notin set

\* addr is h ":" port, or "[" h "]:" port
IsHostPort(addr, h) ==
    \/ \E p \in 0..Len(addr) :
          /\ Len(h) + 1 + p = Len(addr)
          /\ SubSeq(addr, 1, Len(h)) = h
          /\ addr[Len(h) + 1] = ":"
          /\ Without(addr, {"[", "]"})
          /\ Without(h, {":"})
          /\ Without(SubSeq(addr, Len(h) + 2, Len(addr)), {":"})
    \/ \E p \in 0..Len(addr) :
          /\ Len(h) + 3 + p = Len(addr)
          /\ addr[1] = "["
          /\ SubSeq(addr, 2, Len(h) + 1) = h
          /\ addr[Len(h) + 2] = "]"
          /\ addr[Len(h) + 3] = ":"
          /\ Without(h, {"[", "]"})
          /\ Without(SubSeq(addr, Len(h) + 4, Len(addr)), {":", "[", "]"})

\* the hosts addr can be split into
HostsOf(addr) ==
    {h \in {SubSeq(addr, i, j) : i \in 1..2, j \in 0..Len(addr)} :
        IsHostPort(addr, h)}

\* C15: getClientIP returns the first comma-separated entry of a non-empty
\* X-Forwarded-For, trimmed; else a non-empty X-Real-IP as it is; else the
\* host of RemoteAddr when RemoteAddr is a host and a port, and RemoteAddr
\* as it is when it is not
C15_Theorem ==
    (pure.fn = "getClientIP" /\ pure.called) =>
        LET xff    == pure.arg.XForwardedFor
            commas == {i \in 1..Len(xff) : xff[i] = ","}
            first  == IF commas = {} THEN xff
                      ELSE SubSeq(xff, 1, Min(commas) - 1)
            addr   == pure.arg.RemoteAddr
        IN  /\ xff # <<>> => IsTrimOf(pure.out, first)
            /\ (xff = <<>> /\ pure.arg.XRealIP # <<>>) =>
                   pure.out = pure.arg.XRealIP
            /\ (xff = <<>> /\ pure.arg.XRealIP = <<>>) =>
                   /\ HostsOf(addr) # {} => pure.out \in HostsOf(addr)
                   /\ HostsOf(addr) = {} => pure.out = addr

\* getClientIP has returned the bracketed host of a RemoteAddr, with both
\* headers empty
C15_Witness ==
    /\ pure.fn = "getClientIP"
    /\ pure.called
    /\ pure.arg.XForwardedFor = <<>>
    /\ pure.arg.XRealIP = <<>>
    /\ pure.arg.RemoteAddr = <<"[", "3", "]", ":">>
    /\ pure.out = <<"3">>

\* the literals of the signatures (main.go:243-248)
LitVersion == <<"V", "e", "r", "s", "i", "o", "n", "/">>
LitSafari == <<"S", "a", "f", "a", "r", "i", "/">>
LitMsie == <<"M", "S", "I", "E", " ">>
LitEdg == <<"E", "d", "g", "/">>
LitFirefox == <<"F", "i", "r", "e", "f", "o", "x", "/">>
LitChrome == <<"C", "h", "r", "o", "m", "e", "/">>
LitOpera == <<"O", "p", "e", "r", "a", "/">>

\* the places of ua where literal lit stands with a character that is not
\* white space after it
TokensAt(ua, lit) ==
    {i \in 1..Len(ua) :
        /\ HasPrefixAt(ua, i, lit)
        /\ i + Len(lit) <= Len(ua)
        /\ ~IsSpace(ua[i + Len(lit)])}

\* the word of ua that starts at from: up to the next white space
WordAt(ua, from) ==
    LET stops == {k \in from..Len(ua) : IsSpace(ua[k])}
    IN  SubSeq(ua, from, IF stops = {} THEN Len(ua) ELSE Min(stops) - 1)

\* the places of ua where a Version/ token stands with "Safari/" somewhere
\* after its first character
SafariAt(ua) ==
    {i \in TokensAt(ua, LitVersion) :
        \E j \in (i + Len(LitVersion) + 1)..Len(ua) : HasPrefixAt(ua, j, LitSafari)}

\* the places of ua where "MSIE " stands with a word that holds a semicolon
\* after its first character
MsieAt(ua) ==
    {i \in TokensAt(ua, LitMsie) :
        \E j \in 2..Len(WordAt(ua, i + Len(LitMsie))) :
            WordAt(ua, i + Len(LitMsie))[j] = ";"}

\* the signatures in the order parseUserAgent tests them, each with the
\* places of ua where it matches and the literal before its version
Signatures(ua) ==
    << [name |-> "Edge", at |-> TokensAt(ua, LitEdg), lit |-> LitEdg],
       [name |-> "Firefox", at |-> TokensAt(ua, LitFirefox), lit |-> LitFirefox],
       [name |-> "Safari", at |-> SafariAt(ua), lit |-> LitVersion],
       [name |-> "Chrome", at |-> TokensAt(ua, LitChrome), lit |-> LitChrome],
       [name |-> "Opera", at |-> TokensAt(ua, LitOpera), lit |-> LitOpera],
       [name |-> "MSIE", at |-> MsieAt(ua), lit |-> LitMsie] >>

\* C16: parseUserAgent returns {unknown, ""} for the empty string, {other,
\* ""} when no signature matches, and otherwise the first signature that
\* matches, in the order Edge, Firefox, Safari, Chrome, Opera, MSIE, with a
\* version that is a non-empty run without white space standing right after
\* that signature's leftmost match, the whole word there for the signatures
\* that are a literal and a version; so Edg wins over Chrome, and without a
\* Version/ token the result is never Safari, and is Chrome for a string
\* with a Chrome token and no Edg or Firefox token
C16_Theorem ==
    (pure.fn = "parseUserAgent" /\ pure.called) =>
        LET ua    == pure.arg
            sigs  == Signatures(ua)
            found == {n \in 1..Len(sigs) : sigs[n].at # {}}
            out   == pure.out
        IN  /\ ua = <<>> => out = [Browser |-> "unknown", Version |-> <<>>]
            /\ (ua # <<>> /\ found = {}) =>
                   out = [Browser |-> "other", Version |-> <<>>]
            /\ found # {} =>
                   LET sig  == sigs[Min(found)]
                       from == Min(sig.at) + Len(sig.lit)
                       word == WordAt(ua, from)
                   IN  /\ out.Browser = sig.name
                       /\ out.Version # <<>>
                       /\ Without(out.Version, {" "})
                       /\ SubSeq(word, 1, Len(out.Version)) = out.Version
                       /\ sig.name \notin {"Safari", "MSIE"} =>
                              out.Version = word
            /\ (TokensAt(ua, LitChrome) # {} /\ TokensAt(ua, LitEdg) # {}) =>
                   out.Browser = "Edge"
            /\ TokensAt(ua, LitVersion) = {} => out.Browser # "Safari"
            /\ (/\ TokensAt(ua, LitChrome) # {}
                /\ \E j \in 1..Len(ua) : HasPrefixAt(ua, j, LitSafari)
                /\ TokensAt(ua, LitVersion) = {}
                /\ TokensAt(ua, LitEdg) = {}
                /\ TokensAt(ua, LitFirefox) = {}) =>
                   out.Browser = "Chrome"

\* parseUserAgent has returned Edge for a string with a Chrome token, a
\* Safari/ token and an Edg token
C16_Witness ==
    /\ pure.fn = "parseUserAgent"
    /\ pure.called
    /\ pure.arg = Join(<<LitChrome \o <<"1">>, LitSafari \o <<"3">>,
                       LitEdg \o <<"2">>>>)
    /\ pure.out = [Browser |-> "Edge", Version |-> <<"2">>]

\* the event of request r with every field assigned, as lines 124-142 leave
\* it when they read TrackIP as trackIP at second t
Populated(r, trackIP, t) ==
    LET e == NewTrackingData(r, Request(r), trackIP, t, t)
        m == NewMaps(Request(r))
    IN  [Cookies |-> m.Cookies, Host |-> e.Host, Path |-> e.Path,
         Referer |-> e.Referer, Params |-> m.Params, Query |-> m.Query,
         IP |-> e.IP, Decay |-> e.Decay, UserAgent |-> e.UserAgent,
         Language |-> m.Language, Geo |-> e.Geo, Domain |-> e.Domain,
         Timestamp |-> e.Timestamp]

\* C17: every event GetTrackingData returns, at any moment, has all its
\* fields at the values the extraction of its request assigns: none is
\* unset, and none is at a value other than its final one
C17_Counterexample ==
    \A i \in 1..Len(GetTrackingData) :
        \E trackIP \in BOOLEAN, t \in Times :
            View(GetTrackingData[i])
                = Populated(GetTrackingData[i].ref, trackIP, t)

\* the first "decay" parameter of query has a non-empty value
DecayGiven(query) ==
    \E i \in 1..Len(query) :
        /\ query[i].Key = "decay"
        /\ query[i].Value # ""
        /\ \A k \in 1..(i - 1) : query[k].Key # "decay"

\* C18, as stated: the decay is the current time plus 5 minutes in epoch
\* milliseconds when the request has no "decay" query parameter, and 0 when
\* it has one, whatever its value, the empty value of "?decay=" included
C18_Counterexample ==
    (pure.fn = "getDecay" /\ pure.called) =>
        LET query == pure.arg.Query
        IN  pure.out =
                IF \E i \in 1..Len(query) : query[i].Key = "decay"
                THEN 0
                ELSE (pure.arg.now + 5 * 60) * 1000

\* C18, amended: the decay is 0 when the first "decay" query parameter of the
\* request has a non-empty value, and the current time plus 5 minutes in
\* epoch milliseconds when the request has no "decay" parameter or its first
\* one has the empty value
C18_Theorem ==
    (pure.fn = "getDecay" /\ pure.called) =>
        pure.out =
            IF DecayGiven(pure.arg.Query)
            THEN 0
            ELSE (pure.arg.now + 5 * 60) * 1000

\* getDecay has returned five minutes past second 1000 for "?decay="
C18_Witness ==
    /\ pure.fn = "getDecay"
    /\ pure.called
    /\ pure.arg.Query = <<[Key |-> "decay", Value |-> ""]>>
    /\ pure.arg.now = 1000
    /\ pure.out = 1300000

\* C19: the referrer is never empty: it is the Referer header when that is
\* non-empty, else the Referrer header when that is non-empty, else "direct"
C19_Theorem ==
    (pure.fn = "getReferer" /\ pure.called) =>
        /\ pure.out # ""
        /\ pure.arg.Referer # "" => pure.out = pure.arg.Referer
        /\ (pure.arg.Referer = "" /\ pure.arg.Referrer # "") =>
               pure.out = pure.arg.Referrer
        /\ (pure.arg.Referer = "" /\ pure.arg.Referrer = "") =>
               pure.out = "direct"

\* getReferer has fallen back to the Referrer header
C19_Witness ==
    /\ pure.fn = "getReferer"
    /\ pure.called
    /\ pure.arg.Referer = ""
    /\ pure.arg.Referrer = "https://b"
    /\ pure.out = "https://b"

\* where the comma-separated segments of s start
SegmentStarts(s) == {1} \cup {c + 1 : c \in Positions(s, ",")}

\* the segment of s starting at p, up to the next comma, cut before its
\* first ";"
SegmentCut(s, p) ==
    LET stops == {k \in p..Len(s) : s[k] \in {",", ";"}}
        end   == IF stops = {} THEN Len(s) ELSE Min(stops) - 1
    IN  SubSeq(s, p, end)

\* the segment starting at p has a character that is not a space before its
\* first ";"
HasTag(s, p) == \E k \in 1..Len(SegmentCut(s, p)) : ~IsSpace(SegmentCut(s, p)[k])

\* C20: parseLanguage returns the comma-separated segments of the header,
\* each cut before its first ";" and trimmed, without the empty ones, in the
\* order of the header; the empty header gives the empty list
C20_Theorem ==
    (pure.fn = "parseLanguage" /\ pure.called) =>
        LET s    == pure.arg
            kept == {p \in SegmentStarts(s) : HasTag(s, p)}
        IN  /\ s = <<>> => pure.out = <<>>
            /\ Len(pure.out) = Cardinality(kept)
            /\ \A p \in kept :
                   LET i == Cardinality({q \in kept : q <= p})
                   IN  /\ pure.out[i] # <<>>
                       /\ IsTrimOf(pure.out[i], SegmentCut(s, p))

\* parseLanguage has cut a weight, dropped an empty segment and kept the order
C20_Witness ==
    /\ pure.fn = "parseLanguage"
    /\ pure.called
    /\ pure.arg = <<"a", ";", ",", ",", "b">>
    /\ pure.out = << <<"a">>, <<"b">> >>

\* request r's goroutine holds none of the two locks
HoldsNoLock(r) == r \notin locks.muR /\ locks.st # r /\ r \notin locks.stR

\* where processRequest is once its event is appended, lock steps included
AppendedAt == Appended \cup {"t150"}

\* request r's capture task has started and its event is not appended yet
AppendDue(r) == tpc[r] \in {"t124", "t144", "t145"}

\* request r's goroutine is inside a handler that calls GetTrackingData, Use
\* or Configure
InCallback(r) ==
    /\ tpc[r] = "t152"
    /\ hcall[r] # "out"
    /\ HandlerAt(hs[r], hi[r]) # "block"

\* the stats request has begun and has not written its response
StatsDue == stats.pc \in {"s167", "s159", "s168"}

\* C21: a handler is called while its goroutine holds neither the store
\* lock nor pt.mu; a handler that calls GetTrackingData, Use or Configure
\* returns; and whatever handler never returns, the event of every request
\* whose capture task has started is appended, and a stats request that has
\* begun writes its response
C21_Theorem ==
    /\ [](\A r \in Rqs : hcall[r] = "in" => HoldsNoLock(r))
    /\ \A r \in Rqs : []<>(~InCallback(r) /\ ~AppendDue(r))
    /\ []<>(~StatsDue)

\* one request's handler never returns, while another request has had its
\* "use" handler return and the stats response holds both events
C21_Witness ==
    \E r1, r2 \in Rqs :
        /\ r1 # r2
        /\ Running(r1, "block", "in")
        /\ tpc[r2] = "t152"
        /\ \E i \in 1..Len(calls[r2]) :
              calls[r2][i].kind = "use" /\ hi[r2] > calls[r2][i].idx
        /\ stats.pc = "done"
        /\ Len(stats.body) = 2

\* the invocations made for request r's event are those of the first n
\* handlers of list, one each, in the order of the list
InvokedFirst(r, n, list) ==
    /\ Len(calls[r]) = n
    /\ \A i \in 1..n : calls[r][i].idx = i /\ calls[r][i].kind = list[i]

\* C22: the handlers invoked for an event are the list of handlers as it
\* was at one instant after the append, the instant of line 149.  The copy
\* taken then is the whole list, so it has every handler whose Use call had
\* returned; no later Use call changes it while the dispatch goes on; and at
\* every moment the handlers invoked so far are its first ones, each once and
\* in order, all of them when the dispatch ends
C22_Theorem ==
    [][\A r \in Rqs :
          /\ (tpc[r] = "t148" /\ tpc'[r] = "t150") =>
                 /\ \E i \in 1..Len(data) : data[i].ref = r
                 /\ hs'[r] = handlers
          /\ (tpc[r] \in {"t150", "t152"} /\ tpc'[r] \in {"t150", "t152"}) =>
                 /\ hs'[r] = hs[r]
                 /\ IsPrefix(hs[r], handlers')
          /\ tpc[r] = "t152" =>
                 InvokedFirst(r, IF hcall[r] = "out" THEN hi[r] - 1 ELSE hi[r],
                              hs[r])
          /\ (tpc[r] = "t152" /\ tpc'[r] = "done") =>
                 /\ hi[r] = Len(hs[r])
                 /\ calls'[r] = calls[r]]_vars

\* a dispatch has ended without the handler a Use call added while it went
\* on, and the dispatch of another event has called that handler
C22_Witness ==
    \E r1, r2 \in Rqs :
        /\ tpc[r1] = "done"
        /\ \E i \in 1..Len(calls[r1]) : calls[r1][i].kind = "use"
        /\ Len(calls[r1]) < Len(handlers)
        /\ tpc[r2] = "t152"
        /\ Len(hs[r2]) = Len(calls[r1]) + 1
        /\ hcall[r2] = "in"
        /\ InvokedFirst(r2, Len(hs[r2]), hs[r2])

\* C23: the geo field of every event in the store is the client IP of its
\* request, whatever pt.config.TrackIP was: an event without an IP field,
\* whose serialization has no "ip" key, has the client IP under "geo"
C23_Theorem ==
    \A i \in 1..Len(data) :
        LET e == data[i]
            o == EncodeEvent(View(e))
        IN  /\ e.Geo.IP = getClientIP(Request(e.ref))
            /\ e.Geo.IP # <<>>
            /\ o.geo.ip = e.Geo.IP
            /\ e.IP = <<>> => "ip" \notin DOMAIN o

\* TrackIP has been switched off, and the store holds an event with no IP
\* whose geo field is the first X-Forwarded-For entry of its request
C23_Witness ==
    /\ ~config.TrackIP
    /\ \E i \in 1..Len(data) :
          /\ data[i].IP = <<>>
          /\ data[i].Geo.IP = <<"1", ".", "1", ".", "1", ".", "1">>

\* the cookies of request req, as name and value pairs
CookiesOf(req) ==
    {<<req.Cookies[k].Name, req.Cookies[k].Value>> : k \in 1..Len(req.Cookies)}

\* C24: the cookie map of every event in the store has exactly the cookies
\* its request carried, under their names and with their values; the token
\* the response to that request issues, which the request did not carry, is
\* not in it
C24_Counterexample ==
    \A i \in 1..Len(data) :
        LET cookies == View(data[i]).Cookies
        IN  {<<n, cookies[n]>> : n \in DOMAIN cookies}
                = CookiesOf(Request(data[i].ref))

\* C25: nothing orders the appends of different requests: a capture task
\* that has its event ready can append it whatever the tasks of the other
\* requests have done; and whether an event carries an IP is decided by
\* pt.config.TrackIP as it is when the capture task reads it, after the
\* response of its request was sent and left as it was
C25_Theorem ==
    /\ [](\A r \in Rqs :
             (~crashed /\ tpc[r] = "t144") => ENABLED StoreAppend(r))
    /\ [][\A r \in Rqs :
             (tpc[r] = "t124" /\ tpc'[r] = "t144") =>
                 /\ hpc[r] = "returned"
                 /\ resp'[r] = resp[r]
                 /\ (td'[r].IP # <<>>) = config.TrackIP]_vars

\* the first request got its response while MaxAge, and so TrackIP, were
\* still the default ones, the second once Configure had written the new
\* MaxAge; the event of the second was appended first; and the event of the
\* first, captured after Configure had switched TrackIP off, has no IP
C25_Witness ==
    /\ Len(data) = 2
    /\ data[1].ref = 2
    /\ data[2].ref = 1
    /\ Len(resp[1].SetCookie) = 1
    /\ resp[1].SetCookie[1].MaxAge = DefaultConfig.MaxAge
    /\ DefaultConfig.TrackIP
    /\ Len(resp[2].SetCookie) = 1
    /\ resp[2].SetCookie[1].MaxAge # DefaultConfig.MaxAge
    /\ data[2].IP = <<>>

=============================================================================
